---- MODULE Spec2Model ----
(***************************************************************************)
(* Vector<T> over RawMemory<T> (advanced-vector).  The state is two        *)
(* containers a and b of the same element type; every public operation of  *)
(* Vector is one action.  Storage is modelled slot by slot: a slot is      *)
(* either raw memory or holds a constructed element with a value.          *)
(* Two RawMemory<T> objects r and s used on their own are the state of the *)
(* buffer class taken alone.  SpecScript runs a fixed client program on a,  *)
(* SpecAlias a client that inserts copies of a's own elements into a.      *)
(* Positions, indices and iterators are 0-based as in the C++ code; the    *)
(* sequences that hold the slots are 1-based.                              *)
(***************************************************************************)
EXTENDS Integers, Sequences, FiniteSets, TLC

VARIABLES
    vec,      \* the two containers
    kind,     \* the element type's traits
    header,   \* the revision of Vector the program is built against
    last,     \* the last operation: its arguments, the state before it, its outcome
    appends,  \* successful appends to a since it was default-constructed, while
              \* nothing else was applied to it; -1 afterwards
    raw,      \* the two RawMemory objects used on their own
    heap,     \* blocks obtained from operator new and not yet released
    pc        \* the next call of the client program Script; 0: no program runs

vars == <<vec, kind, header, last, appends, raw, heap, pc>>

\* ------------------------------------------------------------------ bounds
MaxCap == 4
MaxHeap == 4

Vecs == {"a", "b"}
\* Two distinguishable element values; 0 is also T{}.
Values == {0, 1}

\* ------------------------------------------------ element type and headers
\* T{} of an arithmetic-like element type.
Default == 0
\* Value of an element after it has been moved from.
Moved == -1
\* Bytes of a slot that holds no object.
Garbage == -2

\* What std::is_nothrow_move_constructible_v<T> / std::is_copy_constructible_v<T>
\* say about T: "nothrow_move" (move never throws), "copy" (copyable, move may
\* throw), "move_only" (not copyable, move may throw).  The move assignment of
\* T throws or not as its move constructor does (std::is_nothrow_move_assignable_v<T>).
Kinds == {"nothrow_move", "copy", "move_only"}

\* The two revisions of Vector that the repository holds.
Headers == {"vector.h", "part_000"}

\* ------------------------------------------------------------------- slots
Raw == [live |-> FALSE, val |-> Garbage]
Obj(x) == [live |-> TRUE, val |-> x]

At(mem, i) == mem[i + 1]
Put(mem, i, s) == [mem EXCEPT ![i + 1] = s]
InRange(i, lo, n) == lo <= i /\ i < lo + n

Ev(e, b, i) == [e |-> e, b |-> b, i |-> i]
\* Events <<e, b, lo>>, ..., <<e, b, lo + n - 1>>.
EvRange(e, b, lo, n) == [j \in 1..n |-> Ev(e, b, lo + j - 1)]

CountLive(mem) == Cardinality({j \in DOMAIN mem : mem[j].live})

\* std::destroy_n(mem + lo, n)
DestroyN(mem, lo, n) ==
    [j \in DOMAIN mem |-> IF InRange(j - 1, lo, n) THEN Raw ELSE mem[j]]

\* ----------------------------------------------------------------- RawMemory
NullPtr == [ptr |-> "null", mem |-> <<>>]
Dangling == [ptr |-> "dangling", mem |-> <<>>]

Allocate(n) ==
    IF n # 0 THEN [ptr |-> "valid", mem |-> [j \in 1..n |-> Raw]] ELSE NullPtr

\* operator delete(buf): the log of the release; the variable that held buf
\* keeps the (now dangling) address.
Deallocate(buf, b) ==
    IF buf.ptr = "null" THEN <<>>
    ELSE IF buf.ptr = "valid" THEN <<Ev("free", b, CountLive(buf.mem))>>
    ELSE <<Ev("double_free", b, 0)>>

AfterDelete(buf) == IF buf.ptr = "null" THEN NullPtr ELSE Dangling

RawMemoryDefault == [buffer_ |-> NullPtr, capacity_ |-> 0]

RawMemoryCtor(capacity) == [buffer_ |-> Allocate(capacity), capacity_ |-> capacity]

\* RawMemory::Swap: the pair <<this, other>> after the call.
RawMemorySwap(this, other) ==
    << [buffer_ |-> other.buffer_, capacity_ |-> other.capacity_],
       [buffer_ |-> this.buffer_, capacity_ |-> this.capacity_] >>

\* RawMemory(RawMemory&& other)
RawMemoryMoveCtor(other, b) ==
    LET s == RawMemorySwap(RawMemoryDefault, other)
    IN  [this |-> s[1],
         other |-> [buffer_ |-> AfterDelete(s[2].buffer_), capacity_ |-> 0],
         log |-> Deallocate(s[2].buffer_, b)]

\* RawMemory::operator=(RawMemory&& rhs), this and rhs distinct objects
RawMemoryMoveAssign(this, rhs, b) ==
    LET s == RawMemorySwap(this, rhs)
    IN  [this |-> s[1],
         other |-> [buffer_ |-> AfterDelete(s[2].buffer_), capacity_ |-> 0],
         log |-> Deallocate(s[2].buffer_, b)]

\* ~RawMemory(): the log of the release
RawMemoryDtor(this, b) ==
    IF this.buffer_.ptr # "null" THEN Deallocate(this.buffer_, b) ELSE <<>>

\* -------------------------------------------------------------------- Vector
VectorDefault == [alive |-> TRUE, size_ |-> 0, data_ |-> RawMemoryDefault]
NoVector == [alive |-> FALSE, size_ |-> 0, data_ |-> RawMemoryDefault]

Size(v) == v.size_
Capacity(v) == v.data_.capacity_
Mem(v) == v.data_.buffer_.mem
WithMem(v, mem) == [v EXCEPT !.data_.buffer_.mem = mem]

\* The values at positions [0, size).
Elems(v) == [j \in 1..v.size_ |-> Mem(v)[j].val]

\* The class invariant of section 3 of the specification, slot by slot.
WellFormed(v) ==
    /\ v.alive
    /\ v.data_.buffer_.ptr = (IF v.data_.capacity_ = 0 THEN "null" ELSE "valid")
    /\ Len(Mem(v)) = v.data_.capacity_
    /\ v.size_ <= v.data_.capacity_
    /\ \A j \in 1..Len(Mem(v)) : Mem(v)[j].live <=> (j <= v.size_)

\* The outcome of a member function: the object afterwards, whether it threw,
\* the position it returned (-1: none) and what it did to elements and blocks.
Outcome(self, thrown, ret, log) ==
    [self |-> self, thrown |-> thrown, ret |-> ret, log |-> log]

NoFail == [at |-> "none", k |-> 0]
AllocFail == [at |-> "alloc", k |-> 0]
CtorFail == [at |-> "ctor", k |-> 0]
RelocFail(k) == [at |-> "reloc", k |-> k]
AssignFail(k) == [at |-> "assign", k |-> k]

\* The bug of relocating by move whatever the traits say.
UsesMove_Always(t) == TRUE

\* std::is_nothrow_move_constructible_v<T> || !std::is_copy_constructible_v<T>
UsesMove(t) == t = "nothrow_move" \/ t = "move_only"

\* std::uninitialized_move_n / std::uninitialized_copy_n of n elements from
\* old + oo to new + no; the transfer of element number failJ (0-based within
\* the call, -1: none) throws, and the library then destroys what it built.
UninitializedTransferN(old, new, oo, no, n, failJ, move) ==
    LET done == IF failJ >= 0 /\ failJ < n THEN failJ ELSE n
        thrown == done < n
        built == [j \in DOMAIN new |->
                    IF InRange(j - 1, no, done)
                    THEN Obj(At(old, (j - 1) - no + oo).val) ELSE new[j]]
        src == IF move
               THEN [j \in DOMAIN old |->
                        IF InRange(j - 1, oo, done)
                        THEN [old[j] EXCEPT !.val = Moved] ELSE old[j]]
               ELSE old
    IN  [old |-> src,
         new |-> IF thrown THEN DestroyN(built, no, done) ELSE built,
         thrown |-> thrown,
         log |-> EvRange(IF move THEN "move" ELSE "copy", "new", no, done)
                 \o (IF thrown
                     THEN <<Ev("throw", "old", oo + done)>> \o EvRange("dtor", "new", no, done)
                     ELSE <<>>)]

\* The bug of destroying each original as soon as it has been transferred.
ReplaceElementsInMemory_DestroyEarly(old, new, oo, no, n, failJ, t) ==
    LET u == UninitializedTransferN(old, new, oo, no, n, failJ, UsesMove(t))
        done == IF u.thrown THEN failJ ELSE n
    IN  [old |-> DestroyN(u.old, oo, done), new |-> u.new, thrown |-> u.thrown,
         log |-> u.log \o EvRange("dtor", "old", oo, done)]

\* Vector::ReplaceElementsInMemory(old_memory, new_memory, size)
ReplaceElementsInMemory(old, new, oo, no, n, failJ, t) ==
    LET u == UninitializedTransferN(old, new, oo, no, n, failJ, UsesMove(t))
    IN  IF u.thrown THEN u
        ELSE [old |-> DestroyN(u.old, oo, n), new |-> u.new, thrown |-> FALSE,
              log |-> u.log \o EvRange("dtor", "old", oo, n)]

\* The bug of tripling instead of doubling.
GrowthCapacity_Triple(size) == IF size = 0 THEN 1 ELSE size * 3

\* The bug of growing by one slot instead of doubling.
GrowthCapacity_PlusOne(size) == size + 1

\* size_ == 0 ? 1 : size_ * 2
GrowthCapacity(size) == IF size = 0 THEN 1 ELSE size * 2

\* The bug of counting the element before it is built: size_++ ahead of the
\* placement new.
EmplaceBackInPlace_CountFirst(this, x, f) ==
    LET size == this.size_
        counted == [this EXCEPT !.size_ = size + 1]
    IN  IF f.at = "ctor" THEN Outcome(counted, TRUE, -1, <<Ev("throw", "old", size)>>)
        ELSE Outcome(WithMem(counted, Put(Mem(this), size, Obj(x))),
                     FALSE, size, <<Ev("ctor", "old", size)>>)

\* Vector::EmplaceBack, size_ < data_.Capacity(): new (data_ + size_) T{args...}; size_++
EmplaceBackInPlace(this, x, f) ==
    LET size == this.size_ IN
    IF f.at = "ctor" THEN Outcome(this, TRUE, -1, <<Ev("throw", "old", size)>>)
    ELSE Outcome([WithMem(this, Put(Mem(this), size, Obj(x))) EXCEPT !.size_ = size + 1],
                 FALSE, size, <<Ev("ctor", "old", size)>>)

\* Vector::EmplaceBack(args...), the new element's value being x
EmplaceBack(this, x, f, t) ==
    LET size == this.size_ IN
    IF size < Capacity(this) THEN EmplaceBackInPlace(this, x, f)
    ELSE
        IF f.at = "alloc" THEN Outcome(this, TRUE, -1, <<Ev("throw", "new", 0)>>)
        ELSE
        LET new_data == RawMemoryCtor(GrowthCapacity(size))
            l0 == <<Ev("alloc", "new", new_data.capacity_)>>
        IN  IF f.at = "ctor"
            THEN Outcome(this, TRUE, -1,
                         l0 \o <<Ev("throw", "new", size)>> \o RawMemoryDtor(new_data, "new"))
            ELSE
            LET new1 == Put(new_data.buffer_.mem, size, Obj(x))
                r == ReplaceElementsInMemory(Mem(this), new1, 0, 0, size,
                                             IF f.at = "reloc" THEN f.k ELSE -1, t)
                l1 == l0 \o <<Ev("ctor", "new", size)>> \o r.log
                nd == [new_data EXCEPT !.buffer_.mem = r.new]
            IN  IF r.thrown
                THEN Outcome(WithMem(this, r.old), TRUE, -1, l1 \o RawMemoryDtor(nd, "new"))
                ELSE LET s == RawMemorySwap(WithMem(this, r.old).data_, nd)
                     IN  Outcome([this EXCEPT !.data_ = s[1], !.size_ = size + 1],
                                 FALSE, size, l1 \o RawMemoryDtor(s[2], "old"))

\* Vector::PopBack()
PopBack(this) ==
    Outcome([WithMem(this, DestroyN(Mem(this), this.size_ - 1, 1))
                EXCEPT !.size_ = this.size_ - 1],
            FALSE, -1, <<Ev("dtor", "old", this.size_ - 1)>>)

\* The bug of reserving one slot more than was asked for.
Reserve_OneMore(this, new_capacity, f, t) ==
    IF new_capacity <= Capacity(this) THEN Outcome(this, FALSE, -1, <<>>)
    ELSE IF f.at = "alloc" THEN Outcome(this, TRUE, -1, <<Ev("throw", "new", 0)>>)
    ELSE
    LET new_data == RawMemoryCtor(new_capacity + 1)
        r == ReplaceElementsInMemory(Mem(this), new_data.buffer_.mem, 0, 0, this.size_,
                                     IF f.at = "reloc" THEN f.k ELSE -1, t)
        nd == [new_data EXCEPT !.buffer_.mem = r.new]
    IN  IF r.thrown
        THEN Outcome(WithMem(this, r.old), TRUE, -1, r.log \o RawMemoryDtor(nd, "new"))
        ELSE Outcome([this EXCEPT !.data_ = nd], FALSE, -1,
                     r.log \o RawMemoryDtor(WithMem(this, r.old).data_, "old"))

\* Vector::Reserve(new_capacity)
Reserve(this, new_capacity, f, t) ==
    IF new_capacity <= Capacity(this) THEN Outcome(this, FALSE, -1, <<>>)
    ELSE IF f.at = "alloc" THEN Outcome(this, TRUE, -1, <<Ev("throw", "new", 0)>>)
    ELSE
    LET new_data == RawMemoryCtor(new_capacity)
        r == ReplaceElementsInMemory(Mem(this), new_data.buffer_.mem, 0, 0, this.size_,
                                     IF f.at = "reloc" THEN f.k ELSE -1, t)
        l1 == <<Ev("alloc", "new", new_capacity)>> \o r.log
        nd == [new_data EXCEPT !.buffer_.mem = r.new]
    IN  IF r.thrown
        THEN Outcome(WithMem(this, r.old), TRUE, -1, l1 \o RawMemoryDtor(nd, "new"))
        ELSE LET s == RawMemorySwap(WithMem(this, r.old).data_, nd)
             IN  Outcome([this EXCEPT !.data_ = s[1]], FALSE, -1,
                         l1 \o RawMemoryDtor(s[2], "old"))

\* *dst = std::move(*src) inside one block.  Assigning to a slot that holds no
\* object is undefined: asIf says whether the build leaves the assigned value
\* there or not; no object's lifetime starts either way.
MoveAssign(mem, dst, src, asIf) ==
    LET d == At(mem, dst)
        s == At(mem, src)
        m1 == Put(mem, dst,
                  IF d.live THEN Obj(s.val)
                  ELSE [live |-> FALSE, val |-> IF asIf THEN s.val ELSE Garbage])
    IN  Put(m1, src, [s EXCEPT !.val = Moved])

\* std::move(mem + first, mem + lst, mem + d_first)
RECURSIVE StdMove(_, _, _, _, _)
StdMove(mem, first, lst, d_first, asIf) ==
    IF first >= lst THEN mem
    ELSE StdMove(MoveAssign(mem, d_first, first, asIf), first + 1, lst, d_first + 1, asIf)

\* The bug of shifting right front to back (std::move for std::move_backward).
StdMoveBackward_Forward(mem, first, lst, d_last, asIf) ==
    StdMove(mem, first, lst, d_last - (lst - first), asIf)

\* std::move_backward(mem + first, mem + lst, mem + d_last)
RECURSIVE StdMoveBackward(_, _, _, _, _)
StdMoveBackward(mem, first, lst, d_last, asIf) ==
    IF first >= lst THEN mem
    ELSE StdMoveBackward(MoveAssign(mem, d_last - 1, lst - 1, asIf),
                         first, lst - 1, d_last - 1, asIf)

\* Vector::Emplace(pos, args...), pos = begin() + position_index
Emplace(this, position_index, x, f, t) ==
    LET size == this.size_ IN
    IF size < Capacity(this) THEN
        IF position_index = size THEN EmplaceBack(this, x, f, t)
        ELSE IF f.at = "ctor" THEN Outcome(this, TRUE, -1, <<Ev("throw", "tmp", 0)>>)
        ELSE
        LET m1 == Put(Put(Mem(this), size, Obj(At(Mem(this), size - 1).val)),
                      size - 1, [At(Mem(this), size - 1) EXCEPT !.val = Moved])
            m2 == StdMoveBackward(m1, position_index, size - 1, size, TRUE)
            m3 == Put(m2, position_index, [At(m2, position_index) EXCEPT !.val = x])
        IN  Outcome([WithMem(this, m3) EXCEPT !.size_ = size + 1], FALSE, position_index,
                    <<Ev("ctor", "tmp", 0), Ev("move", "old", size)>>
                    \o [j \in 1..(size - 1 - position_index) |-> Ev("assign", "old", size - j)]
                    \o <<Ev("assign", "old", position_index), Ev("dtor", "tmp", 0)>>)
    ELSE
        IF f.at = "alloc" THEN Outcome(this, TRUE, -1, <<Ev("throw", "new", 0)>>)
        ELSE
        LET new_data == RawMemoryCtor(GrowthCapacity(size))
            l0 == <<Ev("alloc", "new", new_data.capacity_)>>
        IN  IF f.at = "ctor"
            THEN Outcome(this, TRUE, -1,
                         l0 \o <<Ev("throw", "new", position_index)>>
                         \o RawMemoryDtor(new_data, "new"))
            ELSE
            LET new1 == Put(new_data.buffer_.mem, position_index, Obj(x))
                fk == IF f.at = "reloc" THEN f.k ELSE -1
                r1 == ReplaceElementsInMemory(Mem(this), new1, 0, 0, position_index,
                                              IF fk < position_index THEN fk ELSE -1, t)
                l1 == l0 \o <<Ev("ctor", "new", position_index)>> \o r1.log
            IN  IF r1.thrown
                THEN \* catch (...) { std::destroy_at(new_data + position_index); throw; }
                     LET nd == [new_data EXCEPT
                                  !.buffer_.mem = DestroyN(r1.new, position_index, 1)]
                     IN  Outcome(WithMem(this, r1.old), TRUE, -1,
                                 l1 \o <<Ev("catch", "new", position_index),
                                         Ev("dtor", "new", position_index)>>
                                 \o RawMemoryDtor(nd, "new"))
                ELSE
                LET r2 == ReplaceElementsInMemory(r1.old, r1.new, position_index,
                                                  position_index + 1, size - position_index,
                                                  IF fk >= position_index
                                                  THEN fk - position_index ELSE -1, t)
                    l2 == l1 \o r2.log
                IN  IF r2.thrown
                    THEN \* catch (...) { std::destroy_n(begin(), position_index + 1); throw; }
                         LET nd == [new_data EXCEPT !.buffer_.mem = r2.new]
                         IN  Outcome(WithMem(this, DestroyN(r2.old, 0, position_index + 1)),
                                     TRUE, -1,
                                     l2 \o <<Ev("catch", "old", position_index + 1)>>
                                     \o [j \in 1..(position_index + 1) |->
                                           Ev(IF At(r2.old, j - 1).live
                                              THEN "dtor" ELSE "dtor_raw", "old", j - 1)]
                                     \o RawMemoryDtor(nd, "new"))
                    ELSE LET nd == [new_data EXCEPT !.buffer_.mem = r2.new]
                             s == RawMemorySwap(WithMem(this, r2.old).data_, nd)
                         IN  Outcome([this EXCEPT !.data_ = s[1], !.size_ = size + 1],
                                     FALSE, position_index,
                                     l2 \o RawMemoryDtor(s[2], "old"))

\* The bug of reading the argument after the elements have been relocated or
\* shifted (no temporary; the new element constructed last).
Insert_ReadLate(this, position_index, i, f, t) ==
    LET size == this.size_
        seen == IF size = Capacity(this)
                THEN (IF UsesMove(t) THEN Moved ELSE Garbage)
                ELSE IF position_index = size \/ i < position_index THEN At(Mem(this), i).val
                ELSE IF i = position_index THEN Moved
                ELSE At(Mem(this), i - 1).val
    IN  Emplace(this, position_index, seen, f, t)

\* Vector::PushBack(const T& value) with value = data_[i], an element of this
\* container: EmplaceBack(value), where T{value} reads the element at line 158
\* or 161, ahead of ReplaceElementsInMemory.
PushBack(this, i, f, t) == EmplaceBack(this, At(Mem(this), i).val, f, t)

\* Vector::Insert(pos, const T& value) with value = data_[i]: Emplace(pos, value),
\* where T tmp{value} (line 174) or the placement new of line 180 reads the
\* element before any element is moved, assigned or destroyed.
Insert(this, position_index, i, f, t) ==
    Emplace(this, position_index, At(Mem(this), i).val, f, t)

\* The events of the first n move assignments of a shift to the left that
\* starts at position_index; the first one assigns into a slot without an
\* object when intoRaw is TRUE.
ShiftLog(position_index, n, intoRaw) ==
    [j \in 1..n |-> Ev(IF j = 1 /\ intoRaw THEN "assign_raw" ELSE "assign", "old",
                       position_index + j - 1)]

\* Vector::Erase(pos) of advanced-vector/vector.h; f.at = "assign": move
\* assignment number f.k of std::move throws, the ones before it were made.
Erase(this, position_index, asIf, f) ==
    IF position_index = this.size_
    THEN [PopBack(this) EXCEPT !.ret = this.size_ - 1]
    ELSE
    LET n == this.size_ - 1 - position_index
        m1 == DestroyN(Mem(this), position_index, 1)
        l1 == <<Ev("dtor", "old", position_index)>>
    IN  IF f.at = "assign" /\ f.k < n
        THEN Outcome(WithMem(this, StdMove(m1, position_index + 1,
                                           position_index + 1 + f.k, position_index, asIf)),
                     TRUE, -1,
                     l1 \o ShiftLog(position_index, f.k, TRUE)
                     \o <<Ev("throw", "old", position_index + f.k)>>)
        ELSE Outcome([WithMem(this, StdMove(m1, position_index + 1, this.size_,
                                            position_index, asIf))
                         EXCEPT !.size_ = this.size_ - 1],
                     FALSE, position_index, l1 \o ShiftLog(position_index, n, TRUE))

\* Vector::Erase(pos) of the revision in unnamed/part_000 and part_001
ErasePart(this, position_index, f) ==
    IF position_index = this.size_
    THEN [PopBack(this) EXCEPT !.ret = this.size_ - 1]
    ELSE
    LET n == this.size_ - 1 - position_index IN
    IF f.at = "assign" /\ f.k < n
    THEN Outcome(WithMem(this, StdMove(Mem(this), position_index + 1,
                                       position_index + 1 + f.k, position_index, TRUE)),
                 TRUE, -1,
                 ShiftLog(position_index, f.k, FALSE)
                 \o <<Ev("throw", "old", position_index + f.k)>>)
    ELSE
    LET m1 == StdMove(Mem(this), position_index + 1, this.size_, position_index, TRUE)
        r == PopBack(WithMem(this, m1))
    IN  Outcome(r.self, FALSE, position_index,
                ShiftLog(position_index, n, FALSE) \o r.log)

\* The bug of value-initializing from begin() instead of begin() + size_.
ValueConstructN_FromBegin(mem, lo, n) ==
    [j \in DOMAIN mem |-> IF InRange(j - 1, 0, lo + n) THEN Obj(Default) ELSE mem[j]]

\* std::uninitialized_value_construct_n(mem + lo, n)
ValueConstructN(mem, lo, n) ==
    [j \in DOMAIN mem |-> IF InRange(j - 1, lo, n) THEN Obj(Default) ELSE mem[j]]

\* Vector::Resize(new_size); f.at = "ctor": the first value-initialization throws
Resize(this, new_size, f, t) ==
    IF new_size > this.size_ THEN
        LET r == Reserve(this, new_size, f, t) IN
        IF r.thrown THEN r
        ELSE IF f.at = "ctor"
        THEN Outcome(r.self, TRUE, -1, r.log \o <<Ev("throw", "old", this.size_)>>)
        ELSE Outcome([WithMem(r.self, ValueConstructN(Mem(r.self), this.size_,
                                                      new_size - this.size_))
                         EXCEPT !.size_ = new_size],
                     FALSE, -1,
                     r.log \o EvRange("ctor", "old", this.size_, new_size - this.size_))
    ELSE IF new_size < this.size_ THEN
        Outcome([WithMem(this, DestroyN(Mem(this), new_size, this.size_ - new_size))
                    EXCEPT !.size_ = new_size],
                FALSE, -1, EvRange("dtor", "old", new_size, this.size_ - new_size))
    ELSE Outcome(this, FALSE, -1, <<>>)

\* The outcome of a member function that also changes its argument.
Outcome2(self, other, thrown, log) ==
    [self |-> self, other |-> other, thrown |-> thrown, ret |-> -1, log |-> log]

\* Vector(size_t size)
VectorSized(size) ==
    LET data == RawMemoryCtor(size)
    IN  Outcome([alive |-> TRUE, size_ |-> size,
                 data_ |-> [data EXCEPT !.buffer_.mem = ValueConstructN(@, 0, size)]],
                FALSE, -1, <<Ev("alloc", "new", size)>> \o EvRange("ctor", "new", 0, size))

\* The bug of sizing the copy's buffer by the source's capacity.
VectorCopy_SameCapacity(other) ==
    LET data == RawMemoryCtor(Capacity(other))
        u == UninitializedTransferN(Mem(other), data.buffer_.mem, 0, 0, other.size_,
                                    -1, FALSE)
    IN  Outcome([alive |-> TRUE, size_ |-> other.size_,
                 data_ |-> [data EXCEPT !.buffer_.mem = u.new]],
                FALSE, -1, <<Ev("alloc", "new", Capacity(other))>> \o u.log)

\* Vector(const Vector& other)
VectorCopy(other) ==
    LET data == RawMemoryCtor(other.size_)
        u == UninitializedTransferN(Mem(other), data.buffer_.mem, 0, 0, other.size_,
                                    -1, FALSE)
    IN  Outcome([alive |-> TRUE, size_ |-> other.size_,
                 data_ |-> [data EXCEPT !.buffer_.mem = u.new]],
                FALSE, -1, <<Ev("alloc", "new", other.size_)>> \o u.log)

\* The bug of exchanging by one move assignment, x = std::move(y).
StdSwapRawMemory_OneAssign(x, y) ==
    LET a1 == RawMemoryMoveAssign(x, y, "tmp")
    IN  [x |-> a1.this, y |-> a1.other, log |-> a1.log]

\* std::swap(x, y) on two RawMemory objects: RawMemory tmp(std::move(x));
\* x = std::move(y); y = std::move(tmp); and tmp's destructor.
StdSwapRawMemory(x, y) ==
    LET c == RawMemoryMoveCtor(x, "tmp")
        a1 == RawMemoryMoveAssign(c.other, y, "tmp")
        a2 == RawMemoryMoveAssign(a1.other, c.this, "tmp")
    IN  [x |-> a1.this, y |-> a2.this,
         log |-> c.log \o a1.log \o a2.log \o RawMemoryDtor(a2.other, "tmp")]

\* The bug of exchanging the buffers and leaving the sizes.
Swap_DataOnly(this, other) ==
    LET d == StdSwapRawMemory(this.data_, other.data_)
    IN  Outcome2([this EXCEPT !.data_ = d.x], [other EXCEPT !.data_ = d.y], FALSE, d.log)

\* Vector::Swap(other), this and other distinct objects
Swap(this, other) ==
    LET d == StdSwapRawMemory(this.data_, other.data_)
    IN  Outcome2([this EXCEPT !.size_ = other.size_, !.data_ = d.x],
                 [other EXCEPT !.size_ = this.size_, !.data_ = d.y],
                 FALSE, d.log)

\* Vector(Vector&& other)
VectorMove(other) == Swap(VectorDefault, other)

\* ~Vector()
VectorDtor(this) ==
    LET m == DestroyN(Mem(this), 0, this.size_)
    IN  Outcome(NoVector, FALSE, -1,
                EvRange("dtor", "old", 0, this.size_)
                \o RawMemoryDtor([this.data_ EXCEPT !.buffer_.mem = m], "old"))

\* data_[i] = rhs.data_[i] for i in [0, n)
CopyAssignN(mem, rhsmem, n) ==
    [j \in DOMAIN mem |-> IF j <= n THEN [mem[j] EXCEPT !.val = rhsmem[j].val] ELSE mem[j]]

\* The bug of destroying the destination's elements before the copy is made.
AssignByCopyAndSwap_ClearFirst(this, rhs, f) ==
    LET cleared == [WithMem(this, DestroyN(Mem(this), 0, this.size_)) EXCEPT !.size_ = 0]
        l0 == EvRange("dtor", "old", 0, this.size_)
    IN  IF f.at = "alloc" THEN Outcome2(cleared, rhs, TRUE, l0 \o <<Ev("throw", "new", 0)>>)
        ELSE LET c == VectorCopy(rhs)
                 s == Swap(cleared, c.self)
                 d == VectorDtor(s.other)
             IN  Outcome2(s.self, rhs, FALSE, l0 \o c.log \o s.log \o d.log)

\* The branch rhs.size_ > data_.Capacity() of both revisions' operator=
AssignByCopyAndSwap(this, rhs, f) ==
    IF f.at = "alloc" THEN Outcome2(this, rhs, TRUE, <<Ev("throw", "new", 0)>>)
    ELSE LET c == VectorCopy(rhs)
             s == Swap(this, c.self)
             d == VectorDtor(s.other)
         IN  Outcome2(s.self, rhs, FALSE, c.log \o s.log \o d.log)

\* The bug of assigning by copy-and-swap whatever the sizes are.
CopyAssign_AlwaysCopyAndSwap(this, rhs, f) == AssignByCopyAndSwap(this, rhs, f)

\* Vector::operator=(const Vector& rhs) of advanced-vector/vector.h, this # &rhs
CopyAssign(this, rhs, f) ==
    IF rhs.size_ > Capacity(this) THEN AssignByCopyAndSwap(this, rhs, f)
    ELSE IF this.size_ > rhs.size_ THEN
        LET i == rhs.size_
            m1 == CopyAssignN(Mem(this), Mem(rhs), i)
        IN  Outcome2([WithMem(this, DestroyN(m1, i, this.size_ - i)) EXCEPT !.size_ = rhs.size_],
                     rhs, FALSE,
                     EvRange("assign", "old", 0, i) \o EvRange("dtor", "old", i, this.size_ - i))
    ELSE
        LET i == this.size_
            m1 == CopyAssignN(Mem(this), Mem(rhs), i)
            \* std::uninitialized_copy_n(rhs.begin(), rhs.size_ - i, begin())
            u == UninitializedTransferN(Mem(rhs), m1, 0, 0, rhs.size_ - i, -1, FALSE)
        IN  Outcome2([WithMem(this, u.new) EXCEPT !.size_ = rhs.size_], rhs, FALSE,
                     EvRange("assign", "old", 0, i)
                     \o [j \in 1..(rhs.size_ - i) |->
                            Ev(IF j <= i THEN "ctor_over_live" ELSE "copy", "old", j - 1)])

\* Vector::operator=(const Vector& rhs) of unnamed/part_000, this # &rhs
CopyAssignPart(this, rhs, f) ==
    IF rhs.size_ > Capacity(this) THEN AssignByCopyAndSwap(this, rhs, f)
    ELSE IF this.size_ > rhs.size_ THEN
        LET m1 == CopyAssignN(Mem(this), Mem(rhs), rhs.size_)
        IN  Outcome2([WithMem(this, DestroyN(m1, rhs.size_, this.size_ - rhs.size_))
                         EXCEPT !.size_ = rhs.size_],
                     rhs, FALSE,
                     EvRange("assign", "old", 0, rhs.size_)
                     \o EvRange("dtor", "old", rhs.size_, this.size_ - rhs.size_))
    ELSE
        LET m1 == CopyAssignN(Mem(this), Mem(rhs), this.size_)
            u == UninitializedTransferN(Mem(rhs), m1, this.size_, this.size_,
                                        rhs.size_ - this.size_, -1, FALSE)
        IN  Outcome2([WithMem(this, u.new) EXCEPT !.size_ = rhs.size_], rhs, FALSE,
                     EvRange("assign", "old", 0, this.size_)
                     \o EvRange("copy", "old", this.size_, rhs.size_ - this.size_))

\* Vector::operator=(Vector&& rhs), this # &rhs
MoveAssignVector(this, rhs) == Swap(this, rhs)

\* ------------------------------------------------------------------ actions
\* The failures a growing operation on a container of the given size can meet.
RelocFails(size, t) ==
    IF t = "nothrow_move" THEN {} ELSE {RelocFail(k) : k \in 0..(size - 1)}

GrowthFails(size, t) == {AllocFail} \cup RelocFails(size, t)

\* The failures of the n move assignments of a shift.
AssignFails(n, t) ==
    IF t = "nothrow_move" THEN {} ELSE {AssignFail(k) : k \in 0..(n - 1)}

TotalCapacity(vs) == Capacity(vs["a"]) + Capacity(vs["b"])

Fits(v, newcap) ==
    /\ newcap <= MaxCap
    /\ TotalCapacity(vec) - Capacity(vec[v]) + newcap <= MaxHeap

Peer(v) == IF v = "a" THEN "b" ELSE "a"

Record(op, v, w, x, p, f, r) ==
    [op |-> op, v |-> v, w |-> w, x |-> x, p |-> p, f |-> f, pre |-> vec,
     thrown |-> r.thrown, ret |-> r.ret, log |-> r.log]

Appends(op, v, w, r) ==
    IF v # "a" /\ w # "a" THEN appends
    ELSE IF op = "Vector" THEN 0
    ELSE IF op = "EmplaceBack" /\ appends >= 0
         THEN (IF r.thrown THEN appends ELSE appends + 1)
    ELSE -1

Unary(op, v, x, p, f, r) ==
    /\ vec' = [vec EXCEPT ![v] = r.self]
    /\ last' = Record(op, v, "-", x, p, f, r)
    /\ appends' = Appends(op, v, "-", r)
    /\ UNCHANGED <<kind, header, raw, heap, pc>>

Binary(op, v, w, f, r) ==
    /\ vec' = [vec EXCEPT ![v] = r.self, ![w] = r.other]
    /\ last' = Record(op, v, w, 0, 0, f, r)
    /\ appends' = Appends(op, v, w, r)
    /\ UNCHANGED <<kind, header, raw, heap, pc>>

\* The single-container operations are applied to container a; container b
\* takes part in construction, destruction, assignment and swap.
DoEmplaceBack ==
    \E x \in Values :
        /\ WellFormed(vec["a"])
        /\ Size(vec["a"]) = Capacity(vec["a"]) => Fits("a", GrowthCapacity(Size(vec["a"])))
        /\ \E f \in {NoFail, CtorFail}
                    \cup (IF Size(vec["a"]) = Capacity(vec["a"])
                          THEN GrowthFails(Size(vec["a"]), kind) ELSE {}) :
              Unary("EmplaceBack", "a", x, Size(vec["a"]), f,
                    EmplaceBack(vec["a"], x, f, kind))

DoEmplace ==
    \E x \in Values :
        /\ WellFormed(vec["a"])
        /\ Size(vec["a"]) = Capacity(vec["a"]) => Fits("a", GrowthCapacity(Size(vec["a"])))
        /\ \E p \in 0..Size(vec["a"]) :
           \E f \in {NoFail, CtorFail}
                    \cup (IF Size(vec["a"]) = Capacity(vec["a"])
                          THEN GrowthFails(Size(vec["a"]), kind) ELSE {}) :
              Unary("Emplace", "a", x, p, f, Emplace(vec["a"], p, x, f, kind))

DoPopBack ==
    /\ WellFormed(vec["a"])
    /\ Size(vec["a"]) > 0
    /\ Unary("PopBack", "a", 0, Size(vec["a"]) - 1, NoFail, PopBack(vec["a"]))

DoErase ==
    /\ WellFormed(vec["a"])
    /\ Size(vec["a"]) > 0
    /\ \E p \in 0..Size(vec["a"]) :
       \E f \in {NoFail} \cup AssignFails(Size(vec["a"]) - 1 - p, kind) :
          IF header = "vector.h"
          THEN \E asIf \in BOOLEAN :
                  Unary("Erase", "a", 0, p, f, Erase(vec["a"], p, asIf, f))
          ELSE Unary("Erase", "a", 0, p, f, ErasePart(vec["a"], p, f))

DoReserve ==
    \E n \in 0..MaxCap :
        /\ WellFormed(vec["a"])
        /\ n > Capacity(vec["a"]) => Fits("a", n)
        /\ \E f \in {NoFail}
                    \cup (IF n > Capacity(vec["a"])
                          THEN GrowthFails(Size(vec["a"]), kind) ELSE {}) :
              Unary("Reserve", "a", 0, n, f, Reserve(vec["a"], n, f, kind))

DoResize ==
    \E n \in 0..MaxCap :
        /\ WellFormed(vec["a"])
        /\ n > Capacity(vec["a"]) => Fits("a", n)
        /\ \E f \in {NoFail}
                    \cup (IF n > Size(vec["a"]) THEN {CtorFail} ELSE {})
                    \cup (IF n > Size(vec["a"]) /\ n > Capacity(vec["a"])
                          THEN GrowthFails(Size(vec["a"]), kind) ELSE {}) :
              Unary("Resize", "a", 0, n, f, Resize(vec["a"], n, f, kind))

DoVectorDefault(v) ==
    /\ ~vec[v].alive
    /\ Unary("Vector", v, 0, 0, NoFail, Outcome(VectorDefault, FALSE, -1, <<>>))

DoVectorSized(v) ==
    \E n \in 0..MaxCap :
        /\ ~vec[v].alive
        /\ Fits(v, n)
        /\ Unary("VectorSized", v, 0, n, NoFail, VectorSized(n))

DoVectorDtor(v) ==
    /\ WellFormed(vec[v])
    /\ Unary("~Vector", v, 0, 0, NoFail, VectorDtor(vec[v]))

DoVectorCopy ==
    \E v \in Vecs :
        /\ ~vec[v].alive
        /\ kind # "move_only"
        /\ WellFormed(vec[Peer(v)])
        /\ Fits(v, Size(vec[Peer(v)]))
        /\ LET r == VectorCopy(vec[Peer(v)])
           IN  Binary("VectorCopy", v, Peer(v), NoFail,
                      Outcome2(r.self, vec[Peer(v)], FALSE, r.log))

DoVectorMove ==
    \E v \in Vecs :
        /\ ~vec[v].alive
        /\ WellFormed(vec[Peer(v)])
        /\ Binary("VectorMove", v, Peer(v), NoFail, VectorMove(vec[Peer(v)]))

DoCopyAssign ==
    \E v \in Vecs :
        /\ WellFormed(vec[v])
        /\ WellFormed(vec[Peer(v)])
        /\ kind # "move_only"
        /\ Size(vec[Peer(v)]) > Capacity(vec[v]) =>
              Capacity(vec[Peer(v)]) + Size(vec[Peer(v)]) <= MaxHeap
        /\ \E f \in {NoFail}
                    \cup (IF Size(vec[Peer(v)]) > Capacity(vec[v]) THEN {AllocFail} ELSE {}) :
              Binary("CopyAssign", v, Peer(v), f,
                     IF header = "vector.h"
                     THEN CopyAssign(vec[v], vec[Peer(v)], f)
                     ELSE CopyAssignPart(vec[v], vec[Peer(v)], f))

DoMoveAssign ==
    \E v \in Vecs :
        /\ WellFormed(vec[v])
        /\ WellFormed(vec[Peer(v)])
        /\ Binary("MoveAssign", v, Peer(v), NoFail, MoveAssignVector(vec[v], vec[Peer(v)]))

DoSwap ==
    /\ WellFormed(vec["a"])
    /\ WellFormed(vec["b"])
    /\ Binary("Swap", "a", "b", NoFail, Swap(vec["a"], vec["b"]))

\* ---------------------------------------------- RawMemory used on its own
RawObjs == {"r", "s"}
RawPeer(r) == IF r = "r" THEN "s" ELSE "r"
NoRawMemory == [alive |-> FALSE, obj |-> RawMemoryDefault]
Live(obj) == [alive |-> TRUE, obj |-> obj]

\* The number of blocks the calls of a log released.
Frees(log) == Cardinality({j \in DOMAIN log : log[j].e = "free"})

\* One call on objects r and (when it has an argument) w: the objects
\* afterwards, the blocks it allocated and the log of its releases.
RawStep(op, r, w, n, after, allocs, log) ==
    /\ raw' = after
    /\ heap' = heap + allocs - Frees(log)
    /\ last' = [op |-> op, v |-> r, w |-> w, x |-> 0, p |-> n, f |-> NoFail, pre |-> vec,
                thrown |-> FALSE, ret |-> -1, log |-> log]
    /\ UNCHANGED <<vec, kind, header, appends, pc>>

DoRawMemoryDefault ==
    \E r \in RawObjs :
        /\ ~raw[r].alive
        /\ RawStep("RawMemory", r, "-", 0, [raw EXCEPT ![r] = Live(RawMemoryDefault)], 0, <<>>)

DoRawMemoryCtor ==
    \E r \in RawObjs, n \in 0..MaxCap :
        /\ ~raw[r].alive
        /\ heap + (IF n = 0 THEN 0 ELSE 1) <= MaxHeap
        /\ RawStep("RawMemoryCtor", r, "-", n, [raw EXCEPT ![r] = Live(RawMemoryCtor(n))],
                   IF n = 0 THEN 0 ELSE 1, <<>>)

DoRawMemoryMoveCtor ==
    \E r \in RawObjs :
        /\ ~raw[r].alive
        /\ raw[RawPeer(r)].alive
        /\ LET c == RawMemoryMoveCtor(raw[RawPeer(r)].obj, "other")
           IN  RawStep("RawMemoryMoveCtor", r, RawPeer(r), 0,
                       [raw EXCEPT ![r] = Live(c.this), ![RawPeer(r)] = Live(c.other)],
                       0, c.log)

DoRawMemoryMoveAssign ==
    \E r \in RawObjs :
        /\ raw[r].alive
        /\ raw[RawPeer(r)].alive
        /\ LET c == RawMemoryMoveAssign(raw[r].obj, raw[RawPeer(r)].obj, "rhs")
           IN  RawStep("RawMemoryMoveAssign", r, RawPeer(r), 0,
                       [raw EXCEPT ![r] = Live(c.this), ![RawPeer(r)] = Live(c.other)],
                       0, c.log)

DoRawMemorySwap ==
    /\ raw["r"].alive
    /\ raw["s"].alive
    /\ LET c == RawMemorySwap(raw["r"].obj, raw["s"].obj)
       IN  RawStep("RawMemorySwap", "r", "s", 0,
                   [raw EXCEPT !["r"] = Live(c[1]), !["s"] = Live(c[2])], 0, <<>>)

DoRawMemoryDtor ==
    \E r \in RawObjs :
        /\ raw[r].alive
        /\ RawStep("~RawMemory", r, "-", 0, [raw EXCEPT ![r] = NoRawMemory], 0,
                   RawMemoryDtor(raw[r].obj, "this"))

NoLast ==
    [op |-> "init", v |-> "-", w |-> "-", x |-> 0, p |-> 0, f |-> NoFail,
     pre |-> [v \in Vecs |-> NoVector],
     thrown |-> FALSE, ret |-> -1, log |-> <<>>]

Init ==
    /\ vec = [v \in Vecs |-> IF v = "a" THEN VectorDefault ELSE NoVector]
    /\ kind \in Kinds
    /\ header \in Headers
    /\ last = NoLast
    /\ appends = 0
    /\ raw = [r \in RawObjs |-> NoRawMemory]
    /\ heap = 0
    /\ pc = 0

\* One container.
Next ==
    \/ DoEmplaceBack
    \/ DoEmplace
    \/ DoPopBack
    \/ DoErase
    \/ DoReserve
    \/ DoResize
    \/ DoVectorDefault("a")
    \/ DoVectorSized("a")
    \/ DoVectorDtor("a")

Spec == Init /\ [][Next]_vars

\* Two containers of the same element type.
NextPair ==
    \/ Next
    \/ DoVectorDefault("b")
    \/ DoVectorSized("b")
    \/ DoVectorDtor("b")
    \/ DoVectorCopy
    \/ DoVectorMove
    \/ DoCopyAssign
    \/ DoMoveAssign
    \/ DoSwap

SpecPair == Init /\ [][NextPair]_vars

\* A client program on container a: three appends, an insertion, an erasure
\* and the removal of the last element.
Script ==
    << [op |-> "PushBack", x |-> 1, p |-> 0],
       [op |-> "PushBack", x |-> 2, p |-> 0],
       [op |-> "PushBack", x |-> 3, p |-> 0],
       [op |-> "Insert", x |-> 99, p |-> 1],
       [op |-> "Erase", x |-> 0, p |-> 0],
       [op |-> "PopBack", x |-> 0, p |-> 0] >>

\* The program is at a call of op and nothing it called has thrown.
AtCall(op) ==
    /\ pc \in 1..Len(Script)
    /\ Script[pc].op = op
    /\ ~last.thrown
    /\ WellFormed(vec["a"])

\* The call at pc with outcome r; the program goes on when it returns and
\* ends when it throws.
Call(op, x, p, f, r) ==
    /\ vec' = [vec EXCEPT !["a"] = r.self]
    /\ last' = Record(op, "a", "-", x, p, f, r)
    /\ appends' = Appends(op, "a", "-", r)
    /\ pc' = IF r.thrown THEN pc ELSE pc + 1
    /\ UNCHANGED <<kind, header, raw, heap>>

\* v.PushBack(x)
CallPushBack ==
    /\ AtCall("PushBack")
    /\ \E f \in {NoFail, CtorFail}
                \cup (IF Size(vec["a"]) = Capacity(vec["a"])
                      THEN GrowthFails(Size(vec["a"]), kind) ELSE {}) :
          Call("EmplaceBack", Script[pc].x, Size(vec["a"]), f,
               EmplaceBack(vec["a"], Script[pc].x, f, kind))

\* v.Insert(v.begin() + p, x)
CallInsert ==
    /\ AtCall("Insert")
    /\ \E f \in {NoFail, CtorFail}
                \cup (IF Size(vec["a"]) = Capacity(vec["a"])
                      THEN GrowthFails(Size(vec["a"]), kind) ELSE {}) :
          Call("Emplace", Script[pc].x, Script[pc].p, f,
               Emplace(vec["a"], Script[pc].p, Script[pc].x, f, kind))

\* v.Erase(v.begin() + p)
CallErase ==
    /\ AtCall("Erase")
    /\ \E f \in {NoFail} \cup AssignFails(Size(vec["a"]) - 1 - Script[pc].p, kind) :
          IF header = "vector.h"
          THEN \E asIf \in BOOLEAN :
                  Call("Erase", 0, Script[pc].p, f, Erase(vec["a"], Script[pc].p, asIf, f))
          ELSE Call("Erase", 0, Script[pc].p, f, ErasePart(vec["a"], Script[pc].p, f))

\* v.PopBack()
CallPopBack ==
    /\ AtCall("PopBack")
    /\ Call("PopBack", 0, Size(vec["a"]) - 1, NoFail, PopBack(vec["a"]))

InitScript ==
    /\ vec = [v \in Vecs |-> IF v = "a" THEN VectorDefault ELSE NoVector]
    /\ kind \in Kinds
    /\ header \in Headers
    /\ last = NoLast
    /\ appends = 0
    /\ raw = [r \in RawObjs |-> NoRawMemory]
    /\ heap = 0
    /\ pc = 1

NextScript ==
    \/ CallPushBack
    \/ CallInsert
    \/ CallErase
    \/ CallPopBack

SpecScript == InitScript /\ [][NextScript]_vars

\* One container whose client inserts copies of its own elements:
\* v.PushBack(v[i]) and v.Insert(v.begin() + p, v[i]).  last.x is i.
DoPushBack ==
    /\ WellFormed(vec["a"])
    /\ kind # "move_only"
    /\ Size(vec["a"]) = Capacity(vec["a"]) => Fits("a", GrowthCapacity(Size(vec["a"])))
    /\ \E i \in 0..(Size(vec["a"]) - 1) :
       \E f \in {NoFail, CtorFail}
                \cup (IF Size(vec["a"]) = Capacity(vec["a"])
                      THEN GrowthFails(Size(vec["a"]), kind) ELSE {}) :
          Unary("PushBack", "a", i, Size(vec["a"]), f, PushBack(vec["a"], i, f, kind))

DoInsert ==
    /\ WellFormed(vec["a"])
    /\ kind # "move_only"
    /\ Size(vec["a"]) = Capacity(vec["a"]) => Fits("a", GrowthCapacity(Size(vec["a"])))
    /\ \E i \in 0..(Size(vec["a"]) - 1) :
       \E p \in 0..Size(vec["a"]) :
       \E f \in {NoFail, CtorFail}
                \cup (IF Size(vec["a"]) = Capacity(vec["a"])
                      THEN GrowthFails(Size(vec["a"]), kind) ELSE {}) :
          Unary("Insert", "a", i, p, f, Insert(vec["a"], p, i, f, kind))

NextAlias ==
    \/ DoEmplaceBack
    \/ DoPopBack
    \/ DoReserve
    \/ DoPushBack
    \/ DoInsert

SpecAlias == Init /\ [][NextAlias]_vars

\* Two RawMemory objects and no container.
InitRaw ==
    /\ vec = [v \in Vecs |-> NoVector]
    /\ kind = "nothrow_move"
    /\ header = "vector.h"
    /\ last = NoLast
    /\ appends = 0
    /\ raw = [r \in RawObjs |-> NoRawMemory]
    /\ heap = 0
    /\ pc = 0

NextRaw ==
    \/ DoRawMemoryDefault
    \/ DoRawMemoryCtor
    \/ DoRawMemoryMoveCtor
    \/ DoRawMemoryMoveAssign
    \/ DoRawMemorySwap
    \/ DoRawMemoryDtor

SpecRaw == InitRaw /\ [][NextRaw]_vars

\* ------------------------------------------------------------------- properties
PreA == last.pre["a"]
CurA == vec["a"]

\* Same size, capacity and element values.
Same(v, w) == Size(v) = Size(w) /\ Capacity(v) = Capacity(w) /\ Elems(v) = Elems(w)

\* The last operation was an insertion that took the growth path.
Grew == Size(PreA) = Capacity(PreA)

InsertAt(s, p, x) == SubSeq(s, 1, p) \o <<x>> \o SubSeq(s, p + 1, Len(s))
RemoveAt(s, p) == SubSeq(s, 1, p) \o SubSeq(s, p + 2, Len(s))

\* Constructed elements that were in a block when it was released.
Leaked(log) == \E j \in 1..Len(log) : log[j].e = "free" /\ log[j].i > 0

\* The destructor calls a catch handler of the operation made: <<block, position>>.
HandlerDtors(log) ==
    {<<log[j].b, log[j].i>> :
        j \in {j \in 1..Len(log) :
                 /\ log[j].e \in {"dtor", "dtor_raw"}
                 /\ \E c \in 1..(j - 1) : log[c].e = "catch"}}

IsPowerOfTwo(n) == \E k \in 0..n : 2 ^ k = n

\* C1: after every completed operation each container has size <= capacity,
\* a constructed element in every slot of [0, size) and raw memory in every
\* slot of [size, capacity).
C1_ClassInvariant ==
    ~last.thrown => \A v \in Vecs : vec[v].alive => WellFormed(vec[v])

\* C2: when the construction of the new element throws in EmplaceBack or
\* Emplace, on the growth path or in place, the container's size, capacity,
\* elements and slots are what they were before the call.
C2_CtorThrowStrong ==
    (last.op \in {"EmplaceBack", "Emplace"} /\ last.f.at = "ctor")
        => /\ last.thrown
           /\ CurA = PreA
           /\ ~Leaked(last.log)

C2_Witness ==
    /\ last.op = "Emplace" /\ last.f.at = "ctor" /\ last.thrown
    /\ Grew /\ Size(PreA) = 2 /\ last.p = 1

C2_WitnessInPlace ==
    /\ last.op = "Emplace" /\ last.f.at = "ctor" /\ last.thrown
    /\ ~Grew /\ Size(PreA) = 2 /\ last.p = 1

\* C3: when the transfer of the suffix [p, size) fails in a growing Emplace,
\* the prefix and the new element built in the new buffer are destroyed before
\* the failure propagates and the container keeps its size, capacity and all
\* its elements, constructed, with their values.
C3_SuffixFailureRollsBack ==
    (last.op = "Emplace" /\ Grew /\ last.f.at = "reloc" /\ last.f.k >= last.p)
        => /\ last.thrown
           /\ HandlerDtors(last.log) = {<<"new", i>> : i \in 0..last.p}
           /\ ~Leaked(last.log)
           /\ WellFormed(CurA)
           /\ Size(CurA) = Size(PreA) /\ Capacity(CurA) = Capacity(PreA)
           /\ kind = "copy" => Elems(CurA) = Elems(PreA)

C5_EmplaceInserts ==
    (last.op = "Emplace" /\ ~last.thrown)
        => /\ Elems(CurA) = InsertAt(Elems(PreA), last.p, last.x)
           /\ Size(CurA) = Size(PreA) + 1
           /\ last.ret = last.p
           /\ WellFormed(CurA)

C5_Witness ==
    /\ last.op = "Emplace" /\ ~last.thrown /\ ~Grew
    /\ last.p = 0 /\ Size(PreA) = 3
    /\ Elems(PreA)[1] # Elems(PreA)[2] /\ Elems(PreA)[2] # Elems(PreA)[3]

C5_WitnessGrowth ==
    /\ last.op = "Emplace" /\ ~last.thrown /\ Grew
    /\ last.p = 1 /\ Size(PreA) = 2 /\ Elems(PreA)[1] # Elems(PreA)[2]

\* C6: a successful Erase at p takes one from the size and keeps the capacity;
\* for p < size the elements are the former ones without the one at p and
\* position p is returned; for p = size the last element is removed and end
\* is returned.
C6_EraseRemoves ==
    (last.op = "Erase" /\ ~last.thrown)
        => /\ Size(CurA) = Size(PreA) - 1
           /\ Capacity(CurA) = Capacity(PreA)
           /\ IF last.p < Size(PreA)
              THEN Elems(CurA) = RemoveAt(Elems(PreA), last.p) /\ last.ret = last.p
              ELSE Elems(CurA) = RemoveAt(Elems(PreA), Size(PreA) - 1)
                   /\ last.ret = Size(CurA)

\* C7: while a default-constructed container has only been appended to, its
\* size is the number of appends, its capacity is 0 or a power of two and not
\* below the size, and an append changes the capacity only when the size
\* equalled the capacity before it.
C7_AppendOnly ==
    appends >= 0
        => /\ Size(CurA) = appends
           /\ Capacity(CurA) >= Size(CurA)
           /\ Capacity(CurA) = 0 \/ IsPowerOfTwo(Capacity(CurA))
           /\ (last.op = "EmplaceBack" /\ Capacity(CurA) # Capacity(PreA))
                 => Size(PreA) = Capacity(PreA)

C7_Witness ==
    /\ appends = 3 /\ last.op = "EmplaceBack" /\ ~last.thrown
    /\ Capacity(PreA) = 2 /\ Capacity(CurA) = 4

\* C8: when the relocation of the old elements fails in a growing EmplaceBack,
\* no constructed element is in the new buffer when it is released.
C8_NoLeakOnRelocationFailure ==
    (last.op = "EmplaceBack" /\ last.f.at = "reloc" /\ last.thrown)
        => ~Leaked(last.log)

\* C9 as stated: when the transfer of the prefix [0, p) fails in a growing
\* Emplace, the handler destroys the new element and nothing else and the
\* container keeps its size, capacity, elements and constructed slots.
C9_PrefixFailureIntact ==
    (last.op = "Emplace" /\ Grew /\ last.f.at = "reloc" /\ last.f.k < last.p)
        => /\ last.thrown
           /\ HandlerDtors(last.log) = {<<"new", last.p>>}
           /\ WellFormed(CurA)
           /\ Same(CurA, PreA)

\* C9 amended: the handler destroys the new element and nothing else, and the
\* size, the capacity and the constructed slots are kept; the element values
\* are kept when the transfer copies, and when it moves (an element type that
\* cannot be copied) the elements before the failing one are left moved-from.
C9_PrefixFailureByKind ==
    (last.op = "Emplace" /\ Grew /\ last.f.at = "reloc" /\ last.f.k < last.p)
        => /\ last.thrown
           /\ HandlerDtors(last.log) = {<<"new", last.p>>}
           /\ ~Leaked(last.log)
           /\ WellFormed(CurA)
           /\ Size(CurA) = Size(PreA) /\ Capacity(CurA) = Capacity(PreA)
           /\ IF kind = "copy"
              THEN Elems(CurA) = Elems(PreA)
              ELSE Elems(CurA) = [j \in 1..Size(PreA) |->
                                    IF j <= last.f.k THEN Moved ELSE Elems(PreA)[j]]

C9_Witness ==
    /\ last.op = "Emplace" /\ Grew /\ last.f.at = "reloc" /\ last.thrown
    /\ kind = "move_only" /\ Size(PreA) = 2 /\ last.p = 2 /\ last.f.k = 1
    /\ Elems(CurA)[1] = Moved

\* C10: when relocation copies, no original is destroyed before every copy has
\* been made; a copy that throws in Reserve or in a growing EmplaceBack leaves
\* the size, the capacity, the elements and the constructed slots as they were.
C10_CopyRelocationStrong ==
    (kind = "copy" /\ last.op \in {"Reserve", "EmplaceBack"})
        => /\ \A i, j \in 1..Len(last.log) :
                 (last.log[i].e = "dtor" /\ last.log[i].b = "old" /\ last.log[j].e = "copy")
                    => j < i
           /\ (last.f.at = "reloc")
                 => /\ last.thrown
                    /\ WellFormed(CurA)
                    /\ Same(CurA, PreA)
                    /\ \A i \in 1..Len(last.log) : last.log[i].e # "dtor" \/ last.log[i].b # "old"

C10_Witness ==
    /\ kind = "copy" /\ last.op = "Reserve" /\ last.f.at = "reloc" /\ last.thrown
    /\ Size(PreA) = 2 /\ last.f.k = 1

\* C11: when a move assignment throws while Erase at p < size shifts the
\* elements to the left, the size is unchanged and every slot of [0, size)
\* still holds a constructed element.
C11_EraseThrowKeepsConstructed ==
    (last.op = "Erase" /\ last.f.at = "assign")
        => /\ last.thrown
           /\ Size(CurA) = Size(PreA) /\ Capacity(CurA) = Capacity(PreA)
           /\ \A j \in 1..Size(CurA) : Mem(CurA)[j].live

\* Blocks that the live RawMemory objects own.
Owned == Cardinality({r \in RawObjs : raw[r].alive /\ raw[r].obj.buffer_.ptr = "valid"})

\* C12: a RawMemory's pointer is null exactly when its capacity is 0; after a
\* move construction or a move assignment the source has a null pointer and
\* capacity 0; no block is released twice and every block that is not yet
\* released is owned by one object.
C12_NullIffEmpty ==
    /\ \A r \in RawObjs :
          raw[r].alive => /\ (raw[r].obj.buffer_.ptr = "null") <=> (raw[r].obj.capacity_ = 0)
                          /\ Len(raw[r].obj.buffer_.mem) = raw[r].obj.capacity_
    /\ last.op \in {"RawMemoryMoveCtor", "RawMemoryMoveAssign"}
          => raw[last.w].obj = RawMemoryDefault
    /\ \A j \in DOMAIN last.log : last.log[j].e # "double_free"
    /\ heap = Owned

\* C13: an Erase at p that follows a successful Emplace of x at p leaves the
\* size and the element sequence the container had before the Emplace.
C13_InsertThenEraseRestores ==
    [][(/\ last.op = "Emplace" /\ ~last.thrown
        /\ last'.op = "Erase" /\ ~last'.thrown /\ last'.p = last.p)
          => /\ Size(vec'["a"]) = Size(PreA)
             /\ Elems(vec'["a"]) = Elems(PreA)]_vars

\* C14: after a successful Resize(n) the size is n; for n above the old size
\* the old elements are unchanged and followed by value-initialized ones; for
\* n below it the first n elements remain; for n equal to it nothing changes.
C14_ResizeResult ==
    (last.op = "Resize" /\ ~last.thrown)
        => /\ Size(CurA) = last.p
           /\ WellFormed(CurA)
           /\ last.p > Size(PreA)
                 => Elems(CurA) = Elems(PreA) \o [j \in 1..(last.p - Size(PreA)) |-> Default]
           /\ last.p < Size(PreA) => Elems(CurA) = SubSeq(Elems(PreA), 1, last.p)
           /\ last.p = Size(PreA) => CurA = PreA

C14_Witness ==
    /\ last.op = "Resize" /\ ~last.thrown
    /\ Size(PreA) = 2 /\ last.p = 4 /\ Capacity(PreA) = 2
    /\ Elems(PreA) = <<1, 1>>

C14_WitnessShrink ==
    /\ last.op = "Resize" /\ ~last.thrown
    /\ Size(PreA) = 3 /\ last.p = 1 /\ Elems(PreA)[1] = 1

\* C15: Reserve(n) with n <= capacity changes nothing and touches neither an
\* element nor a block; Reserve(n) with n > capacity makes the capacity n and
\* keeps the size and the elements.
C15_ReserveFrame ==
    (last.op = "Reserve" /\ ~last.thrown)
        => IF last.p <= Capacity(PreA)
           THEN CurA = PreA /\ last.log = <<>>
           ELSE /\ Capacity(CurA) = last.p
                /\ Size(CurA) = Size(PreA)
                /\ Elems(CurA) = Elems(PreA)
                /\ WellFormed(CurA)

C15_Witness ==
    /\ last.op = "Reserve" /\ ~last.thrown
    /\ last.p = 3 /\ Capacity(PreA) = 2 /\ Elems(PreA) = <<1, 0>>

C15_WitnessNoOp ==
    /\ last.op = "Reserve" /\ ~last.thrown
    /\ last.p = 1 /\ Capacity(PreA) = 2 /\ Elems(PreA) = <<1, 0>>

\* C16: a copy-constructed container has the size and the elements of its
\* source in a buffer of its own whose capacity is the source's size, the
\* source is unchanged, and an operation applied to one container leaves the
\* other container's size, capacity and elements unchanged.
C16_CopyIsIndependent ==
    /\ last.op = "VectorCopy"
          => /\ Size(vec[last.v]) = Size(vec[last.w])
             /\ Elems(vec[last.v]) = Elems(vec[last.w])
             /\ Capacity(vec[last.v]) = Size(vec[last.w])
             /\ WellFormed(vec[last.v])
             /\ vec[last.w] = last.pre[last.w]
             /\ last.log[1] = Ev("alloc", "new", Size(vec[last.w]))
             /\ \A j \in DOMAIN last.log : last.log[j].e \in {"alloc", "copy"}
    /\ (last.v \in Vecs /\ last.w = "-")
          => vec[Peer(last.v)] = last.pre[Peer(last.v)]

C16_Witness ==
    /\ last.op = "VectorCopy"
    /\ Elems(vec[last.w]) = <<1>> /\ Capacity(vec[last.w]) = 2

\* A container and its equal peer, one Emplace apart.
C16_WitnessMutated ==
    /\ last.op = "Emplace" /\ ~last.thrown /\ last.x = 1
    /\ WellFormed(vec["b"]) /\ Elems(vec["b"]) = <<0>> /\ Elems(PreA) = <<0>>
    /\ Capacity(PreA) = 1

\* C17: after copy assignment a = b the size and the elements of a are those
\* of b, b is unchanged and exactly the slots [0, b.size) of a are
\* constructed, whether the assignment reallocates, shrinks or extends in place.
C17_CopyAssignEquals ==
    (last.op = "CopyAssign" /\ ~last.thrown)
        => /\ Size(vec[last.v]) = Size(vec[last.w])
           /\ Elems(vec[last.v]) = Elems(vec[last.w])
           /\ vec[last.w] = last.pre[last.w]
           /\ \A j \in 1..Len(Mem(vec[last.v])) :
                 Mem(vec[last.v])[j].live <=> (j <= Size(vec[last.w]))

\* C18: a.Swap(b) gives a the size, capacity and elements b had and b those
\* a had; it constructs, destroys, copies and moves no element, allocates and
\* releases no block, and does not fail.
C18_SwapExchanges ==
    last.op = "Swap"
        => /\ ~last.thrown
           /\ vec[last.v] = last.pre[last.w]
           /\ vec[last.w] = last.pre[last.v]
           /\ last.log = <<>>

C18_Witness ==
    /\ last.op = "Swap"
    /\ Elems(last.pre["a"]) = <<1>> /\ Capacity(last.pre["a"]) = 2
    /\ Elems(last.pre["b"]) = <<0, 1>>

C18_WitnessEmpty ==
    /\ last.op = "Swap"
    /\ Capacity(last.pre["a"]) = 0 /\ Elems(last.pre["b"]) = <<0, 1>>

\* C19: when the allocation of the new buffer fails in EmplaceBack, Emplace,
\* Reserve, Resize or a reallocating copy assignment, the call throws before
\* any element is constructed, transferred or destroyed and both containers
\* are what they were before the call.
C19_AllocFailureNoMutation ==
    last.f.at = "alloc"
        => /\ last.thrown
           /\ last.op \in {"EmplaceBack", "Emplace", "Reserve", "Resize", "CopyAssign"}
           /\ vec = last.pre
           /\ \A j \in DOMAIN last.log : last.log[j].e = "throw"

C19_Witness ==
    /\ last.op = "CopyAssign" /\ last.f.at = "alloc"
    /\ Elems(last.pre[last.v]) = <<1>> /\ Size(last.pre[last.w]) = 2

C19_WitnessResize ==
    /\ last.op = "Resize" /\ last.f.at = "alloc"
    /\ Elems(PreA) = <<1, 0>> /\ last.p = 3

C19_WitnessEmplace ==
    /\ last.op = "Emplace" /\ last.f.at = "alloc"
    /\ Elems(PreA) = <<1, 0>> /\ last.p = 1

\* max(1, 2 * capacity)
Doubled(capacity) == IF 2 * capacity > 1 THEN 2 * capacity ELSE 1

\* C20: EmplaceBack or Emplace called with size = capacity allocates a buffer
\* of max(1, 2 * capacity) slots, which is the capacity after the call when
\* it succeeds; called with size < capacity they keep the capacity and the
\* buffer, and EmplaceBack then touches no slot other than the one at size.
C20_GrowthPolicy ==
    last.op \in {"EmplaceBack", "Emplace"}
        => IF Grew
           THEN /\ ~last.thrown => Capacity(CurA) = Doubled(Capacity(PreA))
                /\ \A j \in DOMAIN last.log :
                      last.log[j].e = "alloc" => last.log[j].i = Doubled(Capacity(PreA))
                /\ last.f.at # "alloc" => \E j \in DOMAIN last.log : last.log[j].e = "alloc"
           ELSE /\ Capacity(CurA) = Capacity(PreA)
                /\ CurA.data_.buffer_.ptr = PreA.data_.buffer_.ptr
                /\ \A j \in DOMAIN last.log : last.log[j].e \notin {"alloc", "free"}
                /\ last.op = "EmplaceBack"
                      => /\ SubSeq(Mem(CurA), 1, Size(PreA)) = SubSeq(Mem(PreA), 1, Size(PreA))
                         /\ \A j \in DOMAIN last.log :
                               /\ last.log[j].e \in {"ctor", "throw"}
                               /\ last.log[j].i = Size(PreA)

C20_Witness ==
    /\ last.op = "Emplace" /\ ~last.thrown /\ Grew
    /\ Capacity(PreA) = 2 /\ Capacity(CurA) = 4

C20_WitnessFirst ==
    /\ last.op = "EmplaceBack" /\ ~last.thrown /\ Capacity(PreA) = 0 /\ Capacity(CurA) = 1

C20_WitnessInPlace ==
    /\ last.op = "EmplaceBack" /\ ~last.thrown /\ ~Grew
    /\ Elems(PreA) = <<1, 0>> /\ Capacity(PreA) = 3

\* C21: from an empty container, appending 1, 2, 3 gives size 3 and elements
\* [1,2,3]; inserting 99 at position 1 then gives [1,99,2,3]; erasing
\* position 0 then gives [99,2,3]; PopBack then gives [99,2].
C21_Scenario ==
    ~last.thrown
        => /\ pc = 4 => Size(CurA) = 3 /\ Elems(CurA) = <<1, 2, 3>>
           /\ pc = 5 => Elems(CurA) = <<1, 99, 2, 3>>
           /\ pc = 6 => Elems(CurA) = <<99, 2, 3>>
           /\ pc = 7 => Elems(CurA) = <<99, 2>>

\* The number of elements constructed in the new block by the first n events.
BuiltBefore(log, n) ==
    Cardinality({j \in 1..(n - 1) : log[j].b = "new" /\ log[j].e \in {"ctor", "move", "copy"}})

\* The elements a growing operation has to construct in the new block: the
\* size old ones and, for an insertion, the new one.
ToBuild == Size(PreA) + (IF last.op = "Reserve" THEN 0 ELSE 1)

\* C22: in EmplaceBack, Emplace and Reserve on the growth path no element of
\* the old block is destroyed before the new element (if any) and all size
\* old elements have been constructed in the new block.
C22_OldUntouchedUntilPopulated ==
    last.op \in {"EmplaceBack", "Emplace", "Reserve"}
        => \A j \in 1..Len(last.log) :
              (last.log[j].b = "old" /\ last.log[j].e \in {"dtor", "dtor_raw"})
                  => BuiltBefore(last.log, j) = ToBuild

\* C23: PushBack(v[i]) and Insert(pos, v[i]), given a reference to an element
\* of the same container, insert the value the element had before the call,
\* on the growth path and in place, and keep the other elements in order.
C23_SelfReferenceInserted ==
    (last.op \in {"PushBack", "Insert"} /\ ~last.thrown)
        => Elems(CurA) = InsertAt(Elems(PreA), last.p, Elems(PreA)[last.x + 1])

\* Insert in place of a copy of an element that the shift moves.
C23_Witness ==
    /\ last.op = "Insert" /\ ~last.thrown /\ ~Grew
    /\ Elems(PreA) = <<0, 1>> /\ last.p = 0 /\ last.x = 1
    /\ Elems(CurA) = <<1, 0, 1>>

\* Insert on the growth path of a copy of an element that is moved from.
C23_WitnessGrowth ==
    /\ last.op = "Insert" /\ ~last.thrown /\ Grew /\ kind = "nothrow_move"
    /\ Elems(PreA) = <<0, 1>> /\ last.p = 1 /\ last.x = 1
    /\ Elems(CurA) = <<0, 1, 1>>

\* PushBack on the growth path of a copy of the first element.
C23_WitnessPushBack ==
    /\ last.op = "PushBack" /\ ~last.thrown /\ Grew
    /\ Elems(PreA) = <<1, 0>> /\ last.x = 0
    /\ Elems(CurA) = <<1, 0, 1>>

\* The operations that exchange whole buffers between two containers.
Exchanging == {"Swap", "VectorMove", "MoveAssign"}

\* C24: EmplaceBack, Emplace, PopBack, Erase, Reserve, Resize and copy
\* assignment, completed or thrown, never leave the container they act on with
\* a smaller capacity; a container's capacity gets smaller only under Swap,
\* move construction or move assignment.
C24_CapacityNeverShrinks ==
    /\ last.op \in {"EmplaceBack", "Emplace", "PopBack", "Erase", "Reserve", "Resize",
                    "CopyAssign"}
          => Capacity(vec[last.v]) >= Capacity(last.pre[last.v])
    /\ \A v \in Vecs :
          (last.pre[v].alive /\ vec[v].alive /\ Capacity(vec[v]) < Capacity(last.pre[v]))
              => last.op \in Exchanging

\* Copy assignment of a shorter container: the capacity stays.
C24_Witness ==
    /\ last.op = "CopyAssign" /\ ~last.thrown
    /\ Size(last.pre[last.w]) < Size(last.pre[last.v])
    /\ Capacity(last.pre[last.w]) < Capacity(last.pre[last.v])
    /\ Capacity(vec[last.v]) = Capacity(last.pre[last.v])

\* Copy assignment that reallocates: the capacity grows.
C24_WitnessGrow ==
    /\ last.op = "CopyAssign" /\ ~last.thrown
    /\ Capacity(last.pre[last.v]) > 0
    /\ Capacity(vec[last.v]) > Capacity(last.pre[last.v])

\* A swap that leaves a container with less capacity.
C24_WitnessSwap ==
    /\ last.op = "Swap"
    /\ Capacity(vec["a"]) < Capacity(last.pre["a"]) /\ Capacity(vec["a"]) > 0

\* A relocation that throws keeps the capacity.
C24_WitnessThrown ==
    /\ last.op = "Resize" /\ last.thrown /\ last.f.at = "reloc"
    /\ Capacity(vec["a"]) = Capacity(PreA) /\ Capacity(PreA) > 0

====
